---- MODULE Spec2Model ----
(***************************************************************************)
(* Model of DiscordPostViaWebhook (src/nodes.py): one invocation of        *)
(* execute(image, subtitle), from the environment lookup of the webhook    *)
(* URL, through process_image (normalisation, PNG encoding in a temporary  *)
(* directory with the 20 MiB size guard) to the batched, sequential        *)
(* webhook calls.                                                          *)
(***************************************************************************)
EXTENDS Integers, Sequences, FiniteSets, TLC

(* ------------------------------ bounds -------------------------------- *)

\* Largest batch (shape[0]) of small images given to one invocation.
MaxBatch == 10

\* Largest batch of images big enough for their PNG to exceed the size guard.
MaxBigBatch == 3

\* Largest array rank (ndim) given to one invocation.
MaxNdim == 5

(* ------------------------- program constants -------------------------- *)

\* message[:2000]
CONTENT_LIMIT == 2000

\* files[i : i + 4]
BATCH_SIZE == 4

\* 20 * 1024 * 1024
SIZE_LIMIT == 20 * 1024 * 1024

\* compress_level of the first save and of the save after the resize
FAST_LEVEL == 1
MAX_LEVEL == 9

\* Image.new("RGB", (128, 128), "black")
DEFAULT_SIDE == 128

(* ------------------------------ inputs -------------------------------- *)

Min(a, b) == IF a < b THEN a ELSE b

\* A caption of length n; the characters differ from place to place, so that
\* a prefix is told apart from any other slice.
Caption(n) == [i \in 1..n |-> i % 7]

CaptionLengths == {0, 3, CONTENT_LIMIT, CONTENT_LIMIT + 1, CONTENT_LIMIT + 500}

\* os.environ.get("DISCORD_WEBHOOK_URL"): None (unset), "" or a URL.
NoneValue == "None"
UrlValues == {NoneValue, "", "https://discord.example/api/webhooks/1"}

\* (width, height) of the images given: a small one, and one whose PNG can
\* exceed the guard even after one halving (odd sides: the halving truncates).
SmallDims == [w |-> 64, h |-> 48]
BigDims == [w |-> 8193, h |-> 8191]

\* Bytes of the raw RGB raster: no PNG of the image is sensibly larger.
RawBytes(d) == d.w * d.h * 3

\* The sizes os.path.getsize can report for a PNG of an image of dims d.
PngSizes(d) ==
    IF RawBytes(d) > SIZE_LIMIT THEN {SIZE_LIMIT, SIZE_LIMIT + 1} ELSE {1024}

NoDims == [w |-> 0, h |-> 0]

\* The image argument: None, a numpy array, a tensor (has .cpu()), or a value
\* that is neither.  ndim is the array rank, batch is shape[0] of a rank-4
\* array, dims the width and height of each image in it.
ArrayShapes ==
    {[ndim |-> n, batch |-> 0, dims |-> NoDims] : n \in (0..MaxNdim) \ {3, 4}}
    \cup {[ndim |-> 3, batch |-> 0, dims |-> d] : d \in {SmallDims, BigDims}}
    \cup {[ndim |-> 4, batch |-> b, dims |-> SmallDims] : b \in 0..MaxBatch}
    \cup {[ndim |-> 4, batch |-> b, dims |-> BigDims] : b \in 1..MaxBigBatch}

ImageValues ==
    {[kind |-> "None", ndim |-> 0, batch |-> 0, dims |-> NoDims],
     [kind |-> "other", ndim |-> 0, batch |-> 0, dims |-> NoDims]}
    \cup {[kind |-> k, ndim |-> s.ndim, batch |-> s.batch, dims |-> s.dims] :
            k \in {"ndarray", "tensor"}, s \in ArrayShapes}

(* ------------------------------- state -------------------------------- *)

VARIABLES
    env_url,         \* value of DISCORD_WEBHOOK_URL
    image,           \* the image argument of execute
    subtitle,        \* the subtitle argument of execute
    loop_running,    \* the calling thread already runs an asyncio event loop
    pc,              \* position of the invocation
    images_to_send,  \* process_image: the PIL images, as their dims
    temp_dir,        \* "absent", "exists" or "removed"
    temp_files,      \* the files in temp_dir: set of [name, data]
    idx,             \* process_image: index of the image being saved
    img,             \* process_image: dims of the image being saved
    saves,           \* every img.save done so far, in order
    files,           \* process_image: the list returned
    calls,           \* every webhook.execute() begun so far, in order
    error            \* the exception that left execute, or "none"

vars == <<env_url, image, subtitle, loop_running, pc, images_to_send, temp_dir, temp_files,
          idx, img, saves, files, calls, error>>

inputs == <<env_url, image, subtitle, loop_running>>

(* ------------------------------ helpers ------------------------------- *)

\* create_default_image(): a PIL image, neither an ndarray nor a tensor.
create_default_image ==
    [kind |-> "PIL", ndim |-> 0, batch |-> 0,
     dims |-> [w |-> DEFAULT_SIDE, h |-> DEFAULT_SIDE]]

\* f"image_{idx}.png"
FileName(i) == [stem |-> "image_", idx |-> i, ext |-> ".png"]

\* "if image is None: image = create_default_image()"
Substituted(im) == IF im.kind = "None" THEN create_default_image ELSE im

\* isinstance(image, np.ndarray) / hasattr(image, "cpu")
IsArrayLike(im) == im.kind \in {"ndarray", "tensor"}

\* As RaisesShape, with the ndarray branch lacking its else: only a tensor of
\* a wrong rank raises.
RaisesShape_NoArrayElse(im) == im.kind = "tensor" /\ im.ndim \notin {3, 4}

\* The branch of process_image that raises ValueError.
RaisesShape(im) == IsArrayLike(im) /\ im.ndim \notin {3, 4}

\* images_to_send after the isinstance / hasattr branches of process_image.
NormalizedImages(im) ==
    IF IsArrayLike(im) /\ im.ndim = 4 THEN [i \in 1..im.batch |-> im.dims]
    ELSE IF IsArrayLike(im) /\ im.ndim = 3 THEN <<im.dims>>
    ELSE <<>>

\* img.resize((img.width // 2, img.height // 2))
Halved(d) == [w |-> d.w \div 2, h |-> d.h \div 2]

\* As Oversize, with >= for >.
Oversize_AtLeast(size) == size >= SIZE_LIMIT

\* os.path.getsize(file_path) > 20 * 1024 * 1024
Oversize(size) == size > SIZE_LIMIT

\* As Truncated, keeping the last 2000 characters: message[-2000:].
Truncated_Tail(message) ==
    SubSeq(message, Len(message) - Min(Len(message), CONTENT_LIMIT) + 1,
           Len(message))

\* message[:2000]
Truncated(message) == SubSeq(message, 1, Min(Len(message), CONTENT_LIMIT))

\* As Batches, with slices one too long: files[i : i + 4 + 1], so the last
\* file of a slice is also the first of the next.
Batches_Overlap(fs) ==
    [k \in 1..((Len(fs) + BATCH_SIZE - 1) \div BATCH_SIZE) |->
        SubSeq(fs, (k - 1) * BATCH_SIZE + 1, Min(k * BATCH_SIZE + 1, Len(fs)))]

\* [files[i : i + 4] for i in range(0, len(files), 4)]
Batches(fs) ==
    [k \in 1..((Len(fs) + BATCH_SIZE - 1) \div BATCH_SIZE) |->
        SubSeq(fs, (k - 1) * BATCH_SIZE + 1, Min(k * BATCH_SIZE, Len(fs)))]

\* As PlannedCalls, without the else branch: no call when there is no file.
PlannedCalls_NoElse(fs) == Batches(fs)

\* The file lists execute hands to send_webhook, one per call: the batches,
\* or a single call without files when the list is empty.
PlannedCalls(fs) == IF fs # <<>> THEN Batches(fs) ELSE << <<>> >>

\* send_webhook: the request built from (message, files).
Request(message, batch) ==
    [content |-> Truncated(message),
     attachments |-> [j \in 1..Len(batch) |-> batch[j].name],
     payloads |-> [j \in 1..Len(batch) |-> batch[j].data]]

\* The file at file_path after a save: an earlier file of that name is replaced.
Written(fset, name, data) ==
    {f \in fset : f.name # name} \cup {[name |-> name, data |-> data]}

\* The last save of the image being processed.
LastSave == saves[Len(saves)]

(* ------------------------------- Init --------------------------------- *)

Init ==
    /\ env_url \in UrlValues
    /\ image \in ImageValues
    /\ subtitle \in {Caption(n) : n \in CaptionLengths}
    /\ loop_running \in BOOLEAN
    /\ pc = "execute"
    /\ images_to_send = <<>>
    /\ temp_dir = "absent"
    /\ temp_files = {}
    /\ idx = 0
    /\ img = NoDims
    /\ saves = <<>>
    /\ files = <<>>
    /\ calls = <<>>
    /\ error = "none"

(* ------------------------------ actions ------------------------------- *)

\* execute: webhook_url missing or empty raises ValueError.
ExecuteNoUrl ==
    /\ pc = "execute"
    /\ env_url \in {NoneValue, ""}
    /\ pc' = "failed"
    /\ error' = "ConfigurationError"
    /\ UNCHANGED <<inputs, images_to_send, temp_dir, temp_files, idx, img,
                   saves, files, calls>>

\* As ExecuteStart, testing "webhook_url is None" for "not webhook_url": the
\* empty URL passes.
ExecuteStart_EmptyPasses ==
    /\ pc = "execute"
    /\ env_url # NoneValue
    /\ pc' = "process_image"
    /\ UNCHANGED <<inputs, images_to_send, temp_dir, temp_files, idx, img,
                   saves, files, calls, error>>

\* execute: the URL is set, process_image is entered.
ExecuteStart ==
    /\ pc = "execute"
    /\ env_url \notin {NoneValue, ""}
    /\ pc' = "process_image"
    /\ UNCHANGED <<inputs, images_to_send, temp_dir, temp_files, idx, img,
                   saves, files, calls, error>>

\* process_image: an array or tensor of rank other than 3 or 4 raises.
NormalizeRaise ==
    /\ pc = "process_image"
    /\ RaisesShape(Substituted(image))
    /\ pc' = "failed"
    /\ error' = "InvalidShapeError"
    /\ UNCHANGED <<inputs, images_to_send, temp_dir, temp_files, idx, img,
                   saves, files, calls>>

\* process_image: the default image is substituted for None and the input is
\* turned into the list images_to_send.
Normalize ==
    /\ pc = "process_image"
    /\ ~RaisesShape(Substituted(image))
    /\ images_to_send' = NormalizedImages(Substituted(image))
    /\ pc' = "mkdtemp"
    /\ UNCHANGED <<inputs, temp_dir, temp_files, idx, img, saves, files,
                   calls, error>>

\* temp_dir = tempfile.mkdtemp(), then the loop over images_to_send is entered.
Mkdtemp ==
    /\ pc = "mkdtemp"
    /\ temp_dir' = "exists"
    /\ idx' = 0
    /\ IF images_to_send # <<>>
       THEN pc' = "save" /\ img' = images_to_send[1]
       ELSE pc' = "rmtree" /\ img' = img
    /\ UNCHANGED <<inputs, images_to_send, temp_files, saves, files, calls,
                   error>>

\* img.save(file_path, format="PNG", compress_level=1)
SaveFirst ==
    /\ pc = "save"
    /\ \E size \in PngSizes(img) :
         LET data == [idx |-> idx, dims |-> img, level |-> FAST_LEVEL,
                      size |-> size]
         IN /\ saves' = Append(saves, data)
            /\ temp_files' = Written(temp_files, FileName(idx), data)
    /\ pc' = "guard"
    /\ UNCHANGED <<inputs, images_to_send, temp_dir, idx, img, files, calls,
                   error>>

\* The size guard: the file is over the limit, so the image is halved and
\* saved again over the same path with compress_level=9.
GuardReencode ==
    /\ pc = "guard"
    /\ Oversize(LastSave.size)
    /\ img' = Halved(img)
    /\ \E size \in PngSizes(Halved(img)) :
         LET data == [idx |-> idx, dims |-> Halved(img), level |-> MAX_LEVEL,
                      size |-> size]
         IN /\ saves' = Append(saves, data)
            /\ temp_files' = Written(temp_files, FileName(idx), data)
    /\ pc' = "read"
    /\ UNCHANGED <<inputs, images_to_send, temp_dir, idx, files, calls, error>>

\* The size guard: the file is within the limit and is kept.
GuardSkip ==
    /\ pc = "guard"
    /\ ~Oversize(LastSave.size)
    /\ pc' = "read"
    /\ UNCHANGED <<inputs, images_to_send, temp_dir, temp_files, idx, img,
                   saves, files, calls, error>>

\* files.append({"data": f.read(), "name": ...}), then the next image or the
\* end of the loop.
ReadBack ==
    /\ pc = "read"
    /\ \E f \in temp_files :
         /\ f.name = FileName(idx)
         /\ files' = Append(files, [name |-> FileName(idx), data |-> f.data])
    /\ idx' = idx + 1
    /\ IF idx + 1 < Len(images_to_send)
       THEN pc' = "save" /\ img' = images_to_send[idx + 2]
       ELSE pc' = "rmtree" /\ img' = img
    /\ UNCHANGED <<inputs, images_to_send, temp_dir, temp_files, saves, calls,
                   error>>

\* A save, the resize or the read of the file raises (OSError, MemoryError):
\* nothing catches it, so it leaves process_image and execute at once.
EncodeRaise ==
    /\ \/ pc \in {"save", "read"}
       \/ pc = "guard" /\ Oversize(LastSave.size)
    /\ pc' = "failed"
    /\ error' = "EncodingError"
    /\ UNCHANGED <<inputs, images_to_send, temp_dir, temp_files, idx, img,
                   saves, files, calls>>

\* shutil.rmtree(temp_dir); return files
Rmtree ==
    /\ pc = "rmtree"
    /\ temp_dir' = "removed"
    /\ temp_files' = {}
    /\ pc' = "deliver"
    /\ UNCHANGED <<inputs, images_to_send, idx, img, saves, files, calls,
                   error>>

\* As SendBegin, with the call scheduled and not awaited: the next call
\* begins while the last is still in flight.
SendBegin_NoAwait ==
    /\ pc \in {"deliver", "await"}
    /\ ~loop_running
    /\ Len(calls) < Len(PlannedCalls(files))
    /\ calls' = Append(calls,
                  [request |-> Request(subtitle,
                                       PlannedCalls(files)[Len(calls) + 1]),
                   status |-> "in_flight"])
    /\ pc' = "await"
    /\ UNCHANGED <<inputs, images_to_send, temp_dir, temp_files, idx, img,
                   saves, files, error>>

\* asyncio.run(self.send_webhook(...)) called while the thread's event loop
\* is running: asyncio.run raises RuntimeError before the coroutine starts,
\* so no request is built and no call begins; nothing catches it.
RunInLoopRaise ==
    /\ pc = "deliver"
    /\ loop_running
    /\ Len(calls) < Len(PlannedCalls(files))
    /\ pc' = "failed"
    /\ error' = "RuntimeError"
    /\ UNCHANGED <<inputs, images_to_send, temp_dir, temp_files, idx, img,
                   saves, files, calls>>

\* asyncio.run(self.send_webhook(...)) for the next batch (or the single
\* message-only call), no event loop running in the thread: the request is
\* built and webhook.execute() begins.
SendBegin ==
    /\ pc = "deliver"
    /\ ~loop_running
    /\ Len(calls) < Len(PlannedCalls(files))
    /\ calls' = Append(calls,
                  [request |-> Request(subtitle,
                                       PlannedCalls(files)[Len(calls) + 1]),
                   status |-> "in_flight"])
    /\ pc' = "await"
    /\ UNCHANGED <<inputs, images_to_send, temp_dir, temp_files, idx, img,
                   saves, files, error>>

\* await webhook.execute() returns; asyncio.run returns and the loop goes on.
SendComplete ==
    /\ pc = "await"
    /\ calls' = [calls EXCEPT ![Len(calls)].status = "delivered"]
    /\ pc' = "deliver"
    /\ UNCHANGED <<inputs, images_to_send, temp_dir, temp_files, idx, img,
                   saves, files, error>>

\* As SendRaise, with the exception caught inside the loop: the loop goes on
\* to the next batch.
SendRaise_Swallowed ==
    /\ pc = "await"
    /\ calls' = [calls EXCEPT ![Len(calls)].status = "failed"]
    /\ pc' = "deliver"
    /\ UNCHANGED <<inputs, images_to_send, temp_dir, temp_files, idx, img,
                   saves, files, error>>

\* await webhook.execute() raises (timeout, transport failure): nothing
\* catches it, so it leaves asyncio.run and execute.
SendRaise ==
    /\ pc = "await"
    /\ calls' = [calls EXCEPT ![Len(calls)].status = "failed"]
    /\ pc' = "failed"
    /\ error' = "DeliveryError"
    /\ UNCHANGED <<inputs, images_to_send, temp_dir, temp_files, idx, img,
                   saves, files>>

\* return (image,)
Return ==
    /\ pc = "deliver"
    /\ Len(calls) = Len(PlannedCalls(files))
    /\ pc' = "done"
    /\ UNCHANGED <<inputs, images_to_send, temp_dir, temp_files, idx, img,
                   saves, files, calls, error>>

Next ==
    \/ ExecuteNoUrl
    \/ ExecuteStart
    \/ NormalizeRaise
    \/ Normalize
    \/ Mkdtemp
    \/ SaveFirst
    \/ GuardReencode
    \/ GuardSkip
    \/ ReadBack
    \/ EncodeRaise
    \/ Rmtree
    \/ RunInLoopRaise
    \/ SendBegin
    \/ SendComplete
    \/ SendRaise
    \/ Return

Spec == Init /\ [][Next]_vars

(* --------------------------- type invariant --------------------------- *)

TypeOK ==
    /\ pc \in {"execute", "process_image", "mkdtemp", "save", "guard", "read",
               "rmtree", "deliver", "await", "done", "failed"}
    /\ temp_dir \in {"absent", "exists", "removed"}
    /\ error \in {"none", "ConfigurationError", "InvalidShapeError",
                  "EncodingError", "DeliveryError", "RuntimeError"}
    /\ loop_running \in BOOLEAN
    /\ idx \in 0..Len(images_to_send)

(* ------------------------------- claims ------------------------------- *)

\* The saves made for the image of index i, in order.
SavesOf(i) == SelectSeq(saves, LAMBDA s : s.idx = i)

Statuses == {calls[k].status : k \in 1..Len(calls)}

\* The invocation has ended, by a return or by an exception.
Ended == pc \in {"done", "failed"}

\* With n = Len(files): exactly ceil(n/4) calls were made, call k (from 0)
\* carrying image_{4k} .. image_{min(4k+3, n-1)} in order, with their payloads.
CallsCoverFiles ==
    LET n == Len(files) IN
    /\ Len(calls) = (n + 3) \div 4
    /\ \A k \in 0..(Len(calls) - 1) :
         LET last == Min(4 * k + 3, n - 1)
             req == calls[k + 1].request
         IN /\ req.attachments =
                 [j \in 1..(last - 4 * k + 1) |-> FileName(4 * k + j - 1)]
            /\ req.payloads =
                 [j \in 1..(last - 4 * k + 1) |-> files[4 * k + j].data]

\* C1 as stated: every invocation that encoded n >= 1 images and in which no
\* network call failed has made exactly ceil(n/4) calls, call k carrying
\* image_{4k} .. image_{min(4k+3, n-1)}; no call carries more than 4.
C1_AsStated ==
    /\ \A k \in 1..Len(calls) : Len(calls[k].request.attachments) <= 4
    /\ (Ended /\ temp_dir = "removed" /\ Len(files) >= 1
           /\ "failed" \notin Statuses) => CallsCoverFiles

\* C1, amended: the same, for an invocation made from a thread that runs no
\* event loop (so that asyncio.run can start the calls).
C1_Batching ==
    /\ \A k \in 1..Len(calls) : Len(calls[k].request.attachments) <= 4
    /\ (Ended /\ temp_dir = "removed" /\ Len(files) >= 1
           /\ "failed" \notin Statuses /\ ~loop_running) => CallsCoverFiles

C1_Witness ==
    /\ ~loop_running
    /\ pc = "done"
    /\ Len(files) = 10
    /\ Len(calls) = 3
    /\ Len(calls[3].request.attachments) = 2

\* C2: with a null image the normalized sequence has exactly one element and
\* the finished invocation has made exactly one call, carrying image_0.png.
C2_PlaceholderSent ==
    /\ (image.kind = "None" /\ pc \in {"mkdtemp", "rmtree", "deliver", "await", "done"})
         => Len(images_to_send) = 1
    /\ (image.kind = "None" /\ pc = "done") =>
         /\ Len(calls) = 1
         /\ calls[1].request.attachments = <<FileName(0)>>

\* C3: once the temporary directory has been created, it and its files are
\* gone when control is back with the caller, after a return and after an
\* error alike.
C3_TempRemoved ==
    (pc \in {"done", "failed"} /\ temp_dir # "absent") =>
        (temp_dir = "removed" /\ temp_files = {})

\* C4 (state part): a failed call is the last call made, every call before it
\* is delivered, and the invocation has ended with the delivery error.
C4_State ==
    \A k \in 1..Len(calls) :
        calls[k].status = "failed" =>
            /\ k = Len(calls)
            /\ \A j \in 1..(k - 1) : calls[j].status = "delivered"
            /\ pc = "failed"
            /\ error = "DeliveryError"

\* C4 (step part): after a failed call nothing more happens: no retry, no
\* later call, no change to what was delivered, no return.
C4_Step == ("failed" \in Statuses) => (calls' = calls /\ pc' = pc)

\* C4: if the call for group k fails, the groups before k are delivered and
\* stay so, no group after k is attempted, the call is not retried and the
\* invocation ends in failure instead of returning.
C4_FailureStops == []C4_State /\ [][C4_Step]_vars

C4_Witness ==
    /\ Len(PlannedCalls(files)) = 3
    /\ Len(calls) = 2
    /\ calls[1].status = "delivered"
    /\ calls[2].status = "failed"
    /\ pc = "failed"

\* C5: with DISCORD_WEBHOOK_URL absent or empty the invocation does nothing
\* but fail with the configuration error: no image is processed, no
\* temporary directory or file is created, no call is made.
C5_NoUrl ==
    env_url \in {NoneValue, ""} =>
        /\ pc \in {"execute", "failed"}
        /\ pc = "failed" => error = "ConfigurationError"
        /\ images_to_send = <<>>
        /\ temp_dir = "absent"
        /\ temp_files = {}
        /\ saves = <<>>
        /\ calls = <<>>

C5_Witness == env_url = "" /\ pc = "failed" /\ error = "ConfigurationError"

\* C6: for an array or tensor of rank other than 3 or 4, the invocation never
\* gets past the rank check: it creates no temporary directory or file, makes
\* no call, and once process_image was entered it ends with the invalid-shape
\* error.
C6_BadRank ==
    (image.kind \in {"ndarray", "tensor"} /\ image.ndim \notin {3, 4}) =>
        /\ pc \in {"execute", "process_image", "failed"}
        /\ (pc = "failed" /\ env_url \notin {NoneValue, ""})
             => error = "InvalidShapeError"
        /\ images_to_send = <<>>
        /\ temp_dir = "absent"
        /\ temp_files = {}
        /\ saves = <<>>
        /\ files = <<>>
        /\ calls = <<>>

C6_Witness ==
    /\ image.kind = "ndarray"
    /\ image.ndim = 5
    /\ pc = "failed"
    /\ error = "InvalidShapeError"

\* Call k carries no attachment and the first min(length, 2000) characters
\* of the caption.
MessageOnly(k) ==
    /\ calls[k].request.attachments = <<>>
    /\ Len(calls[k].request.content) = Min(Len(subtitle), 2000)
    /\ \A i \in 1..Len(calls[k].request.content) :
         calls[k].request.content[i] = subtitle[i]

\* C7 as stated: when no image was encoded, the invocation makes exactly one
\* call, with the caption text and no attachment, and no other.
C7_AsStated ==
    (Ended /\ temp_dir = "removed" /\ files = <<>>) =>
        (Len(calls) = 1 /\ MessageOnly(1))

\* C7, amended: when no image was encoded, the invocation makes at most one
\* call, with the caption text and no attachment; made from a thread that
\* runs no event loop, it makes exactly one.
C7_MessageOnly ==
    (temp_dir = "removed" /\ files = <<>>) =>
        /\ Len(calls) <= 1
        /\ \A k \in 1..Len(calls) : MessageOnly(k)
        /\ (Ended /\ ~loop_running) => Len(calls) = 1

C7_Witness ==
    /\ ~loop_running
    /\ pc = "done"
    /\ image.kind = "ndarray"
    /\ image.ndim = 4
    /\ files = <<>>
    /\ Len(calls) = 1
    /\ calls[1].request.content = Caption(3)

\* C8: the calls are strictly sequential: only the last call begun can be in
\* flight, every call before it has completed, and the calls begin in group
\* order.
C8_Sequential ==
    /\ Cardinality({k \in 1..Len(calls) : calls[k].status = "in_flight"}) <= 1
    /\ \A k \in 1..Len(calls) :
         /\ k < Len(calls) => calls[k].status = "delivered"
         /\ files # <<>> => calls[k].request.attachments[1] = FileName(4 * (k - 1))
    /\ pc = "await" <=> "in_flight" \in Statuses

C8_Witness ==
    /\ Len(calls) = 3
    /\ calls[1].status = "delivered"
    /\ calls[2].status = "delivered"
    /\ calls[3].status = "in_flight"

\* C9: every call of the invocation, with attachments or without, carries the
\* first min(length, 2000) characters of the caption: a long caption is cut,
\* not rejected, and all calls carry the same content.
C9_Content ==
    /\ \A k \in 1..Len(calls) :
         LET content == calls[k].request.content IN
         /\ Len(content) = Min(Len(subtitle), 2000)
         /\ \A i \in 1..Len(content) : content[i] = subtitle[i]
    /\ \A j, k \in 1..Len(calls) :
         calls[j].request.content = calls[k].request.content
    /\ (pc = "done" /\ env_url \notin {NoneValue, ""}) => calls # <<>>

C9_Witness ==
    /\ Len(subtitle) = 2500
    /\ pc = "done"
    /\ Len(calls) = 3
    /\ Len(calls[3].request.content) = 2000

\* C10: every image is saved once or twice; twice exactly when the first file
\* is strictly larger than 20 * 1024 * 1024 bytes; the second save is of the
\* image at half width and half height (integer division) at compression 9;
\* the last save is what the file list holds, whatever its size; so a payload
\* is within 20 MiB or the result of exactly one halve-and-re-encode.
C10_SizeGuard ==
    /\ \A i \in 0..(Len(images_to_send) - 1) : Len(SavesOf(i)) <= 2
    /\ \A i \in 0..(Len(files) - 1) :
         LET s == SavesOf(i)
             orig == images_to_send[i + 1]
             data == files[i + 1].data
         IN /\ Len(s) \in {1, 2}
            /\ s[1].dims = orig
            /\ s[1].level = 1
            /\ Len(s) = 2 <=> s[1].size > 20 * 1024 * 1024
            /\ Len(s) = 2 =>
                 /\ s[2].dims = [w |-> orig.w \div 2, h |-> orig.h \div 2]
                 /\ s[2].level = 9
            /\ data = s[Len(s)]
            /\ files[i + 1].name = FileName(i)
            /\ data.size <= 20 * 1024 * 1024 \/ Len(s) = 2

C10_Witness ==
    /\ pc = "done"
    /\ Len(files) = 2
    /\ files[1].data.size > 20 * 1024 * 1024
    /\ files[1].data.level = 9
    /\ files[1].data.dims = [w |-> 4096, h |-> 4095]
    /\ files[2].data.size = 20 * 1024 * 1024
    /\ files[2].data.level = 1

====
